---- MODULE Spec2Model ----
(***************************************************************************)
(* TransactionBuilder of near-transactions (transaction_builder.rs).       *)
(*                                                                         *)
(* A builder owns one Transaction record.  new() creates it with an empty  *)
(* action vector, eight append methods push one Action each, build() moves *)
(* the record out, and sign_transaction() hashes the record, hands the     *)
(* hash to a Signer and wraps the signature with a clone of the record.    *)
(*                                                                         *)
(* Owned values live in `heap`, a sequence of cells; the builder, the      *)
(* record returned by build() and the record wrapped by every signed       *)
(* transaction are cell numbers, so that the difference between a clone    *)
(* and a shared record is visible.                                         *)
(***************************************************************************)
EXTENDS Integers, Sequences, FiniteSets, TLC

\* ------------------------------------------------------------------ bounds
\* Longest sequence of append calls explored.
MaxActions == 2
\* Most sign_transaction calls that return explored.
MaxSigns == 2

\* ------------------------------------------------------------ input values
\* The argument tuples new() is called with.
NewInputs ==
    { [signer_id |-> "alice.test", public_key |-> "PK1", receiver_id |-> "bob.test",
       nonce |-> 1, block_hash |-> "H1"],
      [signer_id |-> "bob.test", public_key |-> "PK2", receiver_id |-> "alice.test",
       nonce |-> 2, block_hash |-> "H2"] }

Codes == { <<>>, <<1, 2, 3>> }
Balances == {0, 1000}
FunctionCallInputs ==
    { [method_name |-> "", args |-> <<>>, gas |-> 0, deposit |-> 0],
      [method_name |-> "ping", args |-> <<1>>, gas |-> 30, deposit |-> 1000] }
StakeInputs ==
    { [stake |-> 1000, public_key |-> "PK2"] }
AddKeyInputs ==
    { [public_key |-> "PK2", access_key |-> "FullAccess"] }
DeleteKeyInputs == {"PK2"}
DeleteAccountInputs == {"bob.test"}

\* The signers a caller can hand to sign_transaction: an in-memory key, the
\* empty signer (a constant signature), and a signer whose sign() does not
\* return (the only failure a fn(&self, &[u8]) -> Signature has: a panic).
Signers ==
    { [kind |-> "InMemory", key |-> "SK1"],
      [kind |-> "Empty", key |-> "none"],
      [kind |-> "Unavailable", key |-> "none"] }

\* ------------------------------------------------------------------ state
VARIABLES
    phase,      \* "init" before new(), "building", "finalized" after build()
    heap,       \* the owned Transaction values, one per cell
    builder,    \* the cell of TransactionBuilder.transaction, 0 if none
    built,      \* the cell of the record build() returned, 0 if none
    signed,     \* the SignedTransaction values returned so far
    last,       \* history: the last call, whether its signer failed, and how
                \* the call ended: "returned" or "panicked" (unwinding)
    newArgs,    \* history: the arguments of new()
    calls,      \* history: the append calls made, in call order
    signLog     \* history: per returned sign_transaction call, its signer
                \* and the number of append calls made before it

vars == <<phase, heap, builder, built, signed, last, newArgs, calls, signLog>>

\* --------------------------------------------------------------- Action
CreateAccountAction == [kind |-> "CreateAccount"]
DeployContractAction(code) == [kind |-> "DeployContract", code |-> code]
FunctionCallAction(method_name, args, gas, deposit) ==
    [kind |-> "FunctionCall", method_name |-> method_name, args |-> args,
     gas |-> gas, deposit |-> deposit]
TransferAction(deposit) == [kind |-> "Transfer", deposit |-> deposit]
StakeAction(stake, public_key) ==
    [kind |-> "Stake", stake |-> stake, public_key |-> public_key]
AddKeyAction(public_key, access_key) ==
    [kind |-> "AddKey", public_key |-> public_key, access_key |-> access_key]
DeleteKeyAction(public_key) == [kind |-> "DeleteKey", public_key |-> public_key]
DeleteAccountAction(beneficiary_id) ==
    [kind |-> "DeleteAccount", beneficiary_id |-> beneficiary_id]

\* Transaction::V0(TransactionV0 { .. })
TransactionV0(signer_id, public_key, receiver_id, nonce, block_hash, actions) ==
    [version |-> "V0", signer_id |-> signer_id, public_key |-> public_key,
     receiver_id |-> receiver_id, nonce |-> nonce, block_hash |-> block_hash,
     actions |-> actions]

\* A push at the front of the vector instead of at its end.
push_front(tx, action) == [tx EXCEPT !.actions = <<action>> \o @]

\* self.transaction.actions_mut().push(action)
push(tx, action) == [tx EXCEPT !.actions = Append(@, action)]

\* ------------------------------------------------- hashing (external crate)
\* The bytes of an opaque identifier; distinct identifiers, distinct bytes.
Bytes(s) ==
    CASE s = "" -> <<>>
      [] s = "ping" -> <<112, 105, 110, 103>>
      [] s = "alice.test" -> <<97, 46, 116>>
      [] s = "bob.test" -> <<98, 46, 116>>
      [] s = "PK1" -> <<201>>
      [] s = "PK2" -> <<202>>
      [] s = "H1" -> <<211>>
      [] s = "H2" -> <<212>>
      [] s = "FullAccess" -> <<1>>

\* Borsh: a string or byte vector is its length followed by its bytes, an
\* integer is one token, a fixed-size value (key, hash) is its bytes, an enum
\* is its variant index followed by the variant's fields.
borsh_string(s) == <<Len(Bytes(s))>> \o Bytes(s)
borsh_vec_u8(v) == <<Len(v)>> \o v
borsh_public_key(pk) == <<0>> \o Bytes(pk)
borsh_access_key(ak) == <<0>> \o Bytes(ak)

borsh_action(a) ==
    CASE a.kind = "CreateAccount" -> <<0>>
      [] a.kind = "DeployContract" -> <<1>> \o borsh_vec_u8(a.code)
      [] a.kind = "FunctionCall" ->
            <<2>> \o borsh_string(a.method_name) \o borsh_vec_u8(a.args)
                  \o <<a.gas, a.deposit>>
      [] a.kind = "Transfer" -> <<3, a.deposit>>
      [] a.kind = "Stake" -> <<4, a.stake>> \o borsh_public_key(a.public_key)
      [] a.kind = "AddKey" ->
            <<5>> \o borsh_public_key(a.public_key) \o borsh_access_key(a.access_key)
      [] a.kind = "DeleteKey" -> <<6>> \o borsh_public_key(a.public_key)
      [] a.kind = "DeleteAccount" -> <<7>> \o borsh_string(a.beneficiary_id)

RECURSIVE borsh_each(_)
borsh_each(actions) ==
    IF actions = <<>> THEN <<>>
    ELSE borsh_action(Head(actions)) \o borsh_each(Tail(actions))

borsh_transaction(tx) ==
    borsh_string(tx.signer_id) \o borsh_public_key(tx.public_key) \o <<tx.nonce>>
        \o borsh_string(tx.receiver_id) \o Bytes(tx.block_hash)
        \o <<Len(tx.actions)>> \o borsh_each(tx.actions)

\* The digest of a byte string, kept symbolic: equal exactly when the bytes
\* are equal (SHA-256 taken as collision free).
sha256(bytes) == [sha256 |-> bytes]

\* Transaction::get_hash_and_size(): the digest of the serialized record and
\* the serialized size.
get_hash_and_size(tx) ==
    LET bytes == borsh_transaction(tx) IN <<sha256(bytes), Len(bytes)>>

\* ---------------------------------------------------- Signer (external crate)
signer_returns(signer) == signer.kind # "Unavailable"

\* Signer::sign(data): the in-memory signer's signature is a function of its
\* key and of the data, the empty signer's is one constant.
signer_sign(signer, data) ==
    IF signer.kind = "InMemory"
    THEN [key_type |-> "ED25519", key |-> signer.key, over |-> data]
    ELSE [key_type |-> "ED25519", key |-> "none", over |-> sha256(<<>>)]

SignedTransaction_new(signature, transaction) ==
    [signature |-> signature, transaction |-> transaction]

\* ------------------------------------------------------ TransactionBuilder
\* new() with the two account arguments taken in the other order.
new_swapped(signer_id, public_key, receiver_id, nonce, block_hash) ==
    TransactionV0(receiver_id, public_key, signer_id, nonce, block_hash, <<>>)

new(signer_id, public_key, receiver_id, nonce, block_hash) ==
    TransactionV0(signer_id, public_key, receiver_id, nonce, block_hash, <<>>)

create_account(tx) == push(tx, CreateAccountAction)

deploy_contract(tx, code) == push(tx, DeployContractAction(code))

\* function_call that checks its arguments and drops a call without gas.
function_call_checked(tx, method_name, args, gas, deposit) ==
    IF gas = 0 THEN tx
    ELSE push(tx, FunctionCallAction(method_name, args, gas, deposit))

function_call(tx, method_name, args, gas, deposit) ==
    push(tx, FunctionCallAction(method_name, args, gas, deposit))

transfer(tx, deposit) == push(tx, TransferAction(deposit))

\* stake that also stores its key argument as the transaction's key.
stake_sets_key(tx, stake_amount, public_key) ==
    [push(tx, StakeAction(stake_amount, public_key)) EXCEPT !.public_key = public_key]

stake(tx, stake_amount, public_key) == push(tx, StakeAction(stake_amount, public_key))

add_key(tx, public_key, access_key) == push(tx, AddKeyAction(public_key, access_key))

\* delete_key that cancels a pending AddKey of the same key instead of
\* appending.
delete_key_coalescing(tx, public_key) ==
    IF \E i \in 1..Len(tx.actions) :
          tx.actions[i] = AddKeyAction(public_key, "FullAccess")
    THEN [tx EXCEPT !.actions =
            SelectSeq(@, LAMBDA a : a # AddKeyAction(public_key, "FullAccess"))]
    ELSE push(tx, DeleteKeyAction(public_key))

delete_key(tx, public_key) == push(tx, DeleteKeyAction(public_key))

delete_account(tx, beneficiary_id) == push(tx, DeleteAccountAction(beneficiary_id))

\* A clone that hands out the builder's own record.
clone_shared(h, r) == [heap |-> h, ref |-> r]

\* self.transaction.clone(): a new owned value, in a cell of its own.
clone(h, r) == [heap |-> Append(h, h[r]), ref |-> Len(h) + 1]

\* sign_transaction signing the hash of the record as new() made it.
sign_transaction_stale(h, self, signer) ==
    IF ~signer_returns(signer)
    THEN [unwinds |-> TRUE, heap |-> h, value |-> <<>>]
    ELSE LET signature ==
                 signer_sign(signer,
                             get_hash_and_size([h[self] EXCEPT !.actions = <<>>])[1])
             c == clone(h, self)
         IN  [unwinds |-> FALSE, heap |-> c.heap,
              value |-> <<SignedTransaction_new(signature, c.ref)>>]

\* sign_transaction that falls back to the empty signature when the signer
\* fails.
sign_transaction_fallback(h, self, signer) ==
    LET signature ==
            IF signer_returns(signer)
            THEN signer_sign(signer, get_hash_and_size(h[self])[1])
            ELSE signer_sign([kind |-> "Empty", key |-> "none"],
                             get_hash_and_size(h[self])[1])
        c == clone(h, self)
    IN  [unwinds |-> FALSE, heap |-> c.heap,
         value |-> <<SignedTransaction_new(signature, c.ref)>>]

\* sign_transaction that advances the builder's nonce once it has signed.
sign_transaction_bumps_nonce(h, self, signer) ==
    IF ~signer_returns(signer)
    THEN [unwinds |-> TRUE, heap |-> h, value |-> <<>>]
    ELSE LET signature == signer_sign(signer, get_hash_and_size(h[self])[1])
             c == clone(h, self)
         IN  [unwinds |-> FALSE,
              heap |-> [c.heap EXCEPT ![self].nonce = @ + 1],
              value |-> <<SignedTransaction_new(signature, c.ref)>>]

\* sign_transaction(&self, signer): the signer runs first, on the hash of the
\* record; when it does not return, the call unwinds before anything is
\* cloned or wrapped.
sign_transaction(h, self, signer) ==
    IF ~signer_returns(signer)
    THEN [unwinds |-> TRUE, heap |-> h, value |-> <<>>]
    ELSE LET signature == signer_sign(signer, get_hash_and_size(h[self])[1])
             c == clone(h, self)
         IN  [unwinds |-> FALSE, heap |-> c.heap,
              value |-> <<SignedTransaction_new(signature, c.ref)>>]

\* build(self): the record is moved out of the builder.
build(self) == self

\* ----------------------------------------------------------------- actions
Init ==
    /\ phase = "init"
    /\ heap = <<>>
    /\ builder = 0
    /\ built = 0
    /\ signed = <<>>
    /\ last = [op |-> "none", failed |-> FALSE, ended |-> "none"]
    /\ newArgs = <<>>
    /\ calls = <<>>
    /\ signLog = <<>>

New ==
    /\ phase = "init"
    /\ \E a \in NewInputs :
        /\ heap' = Append(heap, new(a.signer_id, a.public_key, a.receiver_id,
                                    a.nonce, a.block_hash))
        /\ newArgs' = <<a>>
    /\ builder' = Len(heap')
    /\ phase' = "building"
    /\ last' = [op |-> "new", failed |-> FALSE, ended |-> "returned"]
    /\ UNCHANGED <<built, signed, calls, signLog>>

\* What every append method does to the state around the builder's record:
\* the record becomes tx, the call is noted, the method returns.
Appended(tx, call) ==
    /\ heap' = [heap EXCEPT ![builder] = tx]
    /\ calls' = Append(calls, call)
    /\ last' = [op |-> call.op, failed |-> FALSE, ended |-> "returned"]
    /\ UNCHANGED <<phase, builder, built, signed, newArgs, signLog>>

CanAppend == phase = "building" /\ Len(calls) < MaxActions

CreateAccount ==
    /\ CanAppend
    /\ Appended(create_account(heap[builder]), [op |-> "create_account"])

DeployContract ==
    /\ CanAppend
    /\ \E code \in Codes :
        Appended(deploy_contract(heap[builder], code),
                 [op |-> "deploy_contract", code |-> code])

FunctionCall ==
    /\ CanAppend
    /\ \E i \in FunctionCallInputs :
        Appended(function_call(heap[builder], i.method_name, i.args, i.gas, i.deposit),
                 [op |-> "function_call", method_name |-> i.method_name,
                  args |-> i.args, gas |-> i.gas, deposit |-> i.deposit])

Transfer ==
    /\ CanAppend
    /\ \E deposit \in Balances :
        Appended(transfer(heap[builder], deposit),
                 [op |-> "transfer", deposit |-> deposit])

Stake ==
    /\ CanAppend
    /\ \E i \in StakeInputs :
        Appended(stake(heap[builder], i.stake, i.public_key),
                 [op |-> "stake", stake |-> i.stake, public_key |-> i.public_key])

AddKey ==
    /\ CanAppend
    /\ \E i \in AddKeyInputs :
        Appended(add_key(heap[builder], i.public_key, i.access_key),
                 [op |-> "add_key", public_key |-> i.public_key,
                  access_key |-> i.access_key])

DeleteKey ==
    /\ CanAppend
    /\ \E public_key \in DeleteKeyInputs :
        Appended(delete_key(heap[builder], public_key),
                 [op |-> "delete_key", public_key |-> public_key])

DeleteAccount ==
    /\ CanAppend
    /\ \E beneficiary_id \in DeleteAccountInputs :
        Appended(delete_account(heap[builder], beneficiary_id),
                 [op |-> "delete_account", beneficiary_id |-> beneficiary_id])

SignTransaction ==
    /\ phase = "building"
    /\ Len(signed) < MaxSigns
    /\ \E signer \in Signers :
        LET r == sign_transaction(heap, builder, signer) IN
        /\ heap' = r.heap
        /\ signed' = signed \o r.value
        /\ last' = [op |-> "sign_transaction", failed |-> ~signer_returns(signer),
                    ended |-> IF r.unwinds THEN "panicked" ELSE "returned"]
        /\ signLog' = IF signer_returns(signer)
                      THEN Append(signLog, [signer |-> signer, at |-> Len(calls),
                                            results |-> Len(signed')])
                      ELSE signLog
    /\ UNCHANGED <<phase, builder, built, newArgs, calls>>

Build ==
    /\ phase = "building"
    /\ built' = build(builder)
    /\ builder' = 0
    /\ phase' = "finalized"
    /\ last' = [op |-> "build", failed |-> FALSE, ended |-> "returned"]
    /\ UNCHANGED <<heap, signed, newArgs, calls, signLog>>

Next ==
    \/ New
    \/ CreateAccount
    \/ DeployContract
    \/ FunctionCall
    \/ Transfer
    \/ Stake
    \/ AddKey
    \/ DeleteKey
    \/ DeleteAccount
    \/ SignTransaction
    \/ Build

Spec == Init /\ [][Next]_vars

\* ------------------------------------------------------- what is expected
IsPrefix(s, t) == Len(s) <= Len(t) /\ SubSeq(t, 1, Len(s)) = s

\* The action an append call is to construct, read off the call alone.
ExpectedAction(call) ==
    CASE call.op = "create_account" -> [kind |-> "CreateAccount"]
      [] call.op = "deploy_contract" -> [kind |-> "DeployContract", code |-> call.code]
      [] call.op = "function_call" ->
            [kind |-> "FunctionCall", method_name |-> call.method_name,
             args |-> call.args, gas |-> call.gas, deposit |-> call.deposit]
      [] call.op = "transfer" -> [kind |-> "Transfer", deposit |-> call.deposit]
      [] call.op = "stake" ->
            [kind |-> "Stake", stake |-> call.stake, public_key |-> call.public_key]
      [] call.op = "add_key" ->
            [kind |-> "AddKey", public_key |-> call.public_key,
             access_key |-> call.access_key]
      [] call.op = "delete_key" -> [kind |-> "DeleteKey", public_key |-> call.public_key]
      [] call.op = "delete_account" ->
            [kind |-> "DeleteAccount", beneficiary_id |-> call.beneficiary_id]

\* The actions of the first n append calls, in call order.
ExpectedActions(n) == [i \in 1..n |-> ExpectedAction(calls[i])]

\* The record after new() and the first n append calls.
ExpectedRecord(n) ==
    [version |-> "V0", signer_id |-> newArgs[1].signer_id,
     public_key |-> newArgs[1].public_key, receiver_id |-> newArgs[1].receiver_id,
     nonce |-> newArgs[1].nonce, block_hash |-> newArgs[1].block_hash,
     actions |-> ExpectedActions(n)]

\* The record the caller can reach now: the builder's, or the one build()
\* returned.
Current == IF phase = "finalized" THEN heap[built] ELSE heap[builder]

\* C1: build() returns a record whose action sequence has one element per
\* append call, the i-th being the action the i-th call constructed, in call
\* order, nothing reordered, dropped or merged.
C1_BuildKeepsCallOrder ==
    phase = "finalized" =>
        /\ Len(heap[built].actions) = Len(calls)
        /\ heap[built].actions = ExpectedActions(Len(calls))

C1_Witness ==
    /\ phase = "finalized"
    /\ Len(calls) = 2
    /\ calls[1].op = "create_account"
    /\ calls[2] = [op |-> "deploy_contract", code |-> <<1, 2, 3>>]
    /\ heap[built].actions = <<[kind |-> "CreateAccount"],
                               [kind |-> "DeployContract", code |-> <<1, 2, 3>>]>>

\* The signed transaction a logged sign_transaction call returned.
Returned(e) == signed[e.results]

\* C2: every signed transaction carries the signer's output on the hash of
\* the record as it stood at the call (new()'s fields and the actions
\* appended before the call, none appended after), and wraps that record.
C2_SignsCurrentRecord ==
    \A k \in 1..Len(signLog) :
        LET e == signLog[k] IN
        /\ Returned(e).signature =
               signer_sign(e.signer, get_hash_and_size(ExpectedRecord(e.at))[1])
        /\ heap[Returned(e).transaction] = ExpectedRecord(e.at)

C2_Witness ==
    \E k \in 1..Len(signLog) :
        /\ signLog[k].at = 1
        /\ signLog[k].signer.kind = "InMemory"
        /\ Len(calls) = 2
        /\ Len(heap[Returned(signLog[k]).transaction].actions) = 1

\* C3 as stated: a failure of the signer comes back to the caller as an
\* error value returned by sign_transaction.
C3_FailureReturnedAsError ==
    last.failed => last.ended = "error"

\* C3: sign_transaction has no error value to return; a signer that fails
\* ends the call by unwinding, and the call leaves the builder, every record
\* and every signed transaction as they were: no retry, no fallback, no
\* signed result.
C3_FailureUnwinds ==
    [][last'.failed =>
          /\ last'.op = "sign_transaction"
          /\ last'.ended = "panicked"
          /\ signed' = signed
          /\ heap' = heap
          /\ builder' = builder
          /\ signLog' = signLog]_vars

C3_Witness ==
    /\ last.op = "sign_transaction"
    /\ last.failed
    /\ last.ended = "panicked"
    /\ Len(calls) = 1
    /\ Len(signed) = 1

\* Two sign_transaction calls with the same signer, the second after at
\* least one more append.
SignedAgainAfterAppend(i, j) ==
    /\ i < j
    /\ signLog[i].signer = signLog[j].signer
    /\ signLog[i].at < signLog[j].at

\* C4 as stated: signing again with the same signer after an append gives a
\* signature different from the first, whatever the signer.
C4_SignatureAlwaysChanges ==
    \A i, j \in 1..Len(signLog) :
        SignedAgainAfterAppend(i, j) =>
            Returned(signLog[i]).signature # Returned(signLog[j]).signature

\* C4: signing again with the same signer after an append wraps the longer
\* record and signs its hash, which differs from the hash signed first; the
\* signature differs when the signer's output depends on what it signs (the
\* in-memory key), and is the same constant for the empty signer.
C4_SignatureFollowsRecord ==
    \A i, j \in 1..Len(signLog) :
        SignedAgainAfterAppend(i, j) =>
            LET first == Returned(signLog[i])
                second == Returned(signLog[j])
            IN  /\ heap[first.transaction] # heap[second.transaction]
                /\ get_hash_and_size(heap[first.transaction])[1]
                       # get_hash_and_size(heap[second.transaction])[1]
                /\ signLog[i].signer.kind = "InMemory" =>
                       /\ first.signature # second.signature
                       /\ second.signature.over =
                              get_hash_and_size(heap[second.transaction])[1]
                /\ signLog[i].signer.kind = "Empty" =>
                       first.signature = second.signature

C4_Witness ==
    \E i, j \in 1..Len(signLog) :
        /\ SignedAgainAfterAppend(i, j)
        /\ signLog[i].signer.kind = "InMemory"
        /\ signLog[i].at = 0
        /\ calls[1].op = "transfer"
        /\ Returned(signLog[i]).signature # Returned(signLog[j]).signature

\* C5: two sign_transaction calls with the same signer and no append between
\* them return equal signatures and equal wrapped records.
C5_SignTwiceSameResult ==
    \A i, j \in 1..Len(signLog) :
        (i < j /\ signLog[i].signer = signLog[j].signer
               /\ signLog[i].at = signLog[j].at) =>
            /\ Returned(signLog[i]).signature = Returned(signLog[j]).signature
            /\ heap[Returned(signLog[i]).transaction]
                   = heap[Returned(signLog[j]).transaction]

C5_Witness ==
    /\ Len(signLog) = 2
    /\ signLog[1].signer = signLog[2].signer
    /\ signLog[1].signer.kind = "InMemory"
    /\ signLog[1].at = 1
    /\ signLog[2].at = 1
    /\ Returned(signLog[1]).transaction # Returned(signLog[2]).transaction

\* C6: signer_id, public_key, receiver_id, nonce and block_hash of the record
\* are the arguments of new() after any appends and sign_transaction calls,
\* and in the record build() returns.
C6_FieldsKeepNewArguments ==
    phase # "init" =>
        /\ Current.signer_id = newArgs[1].signer_id
        /\ Current.public_key = newArgs[1].public_key
        /\ Current.receiver_id = newArgs[1].receiver_id
        /\ Current.nonce = newArgs[1].nonce
        /\ Current.block_hash = newArgs[1].block_hash

C6_Witness ==
    /\ phase = "finalized"
    /\ Len(signed) >= 1
    /\ \E i \in 1..Len(calls) :
        /\ calls[i].op = "stake"
        /\ calls[i].public_key # newArgs[1].public_key
    /\ \E i \in 1..Len(calls) :
        /\ calls[i].op = "delete_account"
        /\ calls[i].beneficiary_id # newArgs[1].signer_id

\* C7: new() can always be called and returns; right after it the builder's
\* record has no actions and its five fields are the arguments; build()
\* called before any append returns a record with no actions.
C7_NewGivesEmptyRecord ==
    /\ phase = "init" => ENABLED New
    /\ last.op = "new" =>
          /\ last.ended = "returned"
          /\ heap[builder] =
                [version |-> "V0", signer_id |-> newArgs[1].signer_id,
                 public_key |-> newArgs[1].public_key,
                 receiver_id |-> newArgs[1].receiver_id,
                 nonce |-> newArgs[1].nonce, block_hash |-> newArgs[1].block_hash,
                 actions |-> <<>>]
    /\ (phase = "finalized" /\ calls = <<>>) =>
          /\ heap[built].actions = <<>>
          /\ heap[built].signer_id = newArgs[1].signer_id
          /\ heap[built].receiver_id = newArgs[1].receiver_id

C7_Witness ==
    /\ phase = "finalized"
    /\ calls = <<>>
    /\ signed = <<>>
    /\ heap[built].actions = <<>>
    /\ heap[built].signer_id = "alice.test"

\* C8: an append call returns for every argument, empty and zero values
\* included, and extends the action sequence by exactly the one action made
\* of the call's own values.
C8_AppendsAcceptEveryValue ==
    [][calls' # calls =>
          /\ Len(calls') = Len(calls) + 1
          /\ last'.ended = "returned"
          /\ heap'[builder'].actions =
                 Append(heap[builder].actions, ExpectedAction(calls'[Len(calls')]))]_vars

C8_Witness ==
    /\ phase = "building"
    /\ calls = <<[op |-> "function_call", method_name |-> "", args |-> <<>>,
                  gas |-> 0, deposit |-> 0],
                 [op |-> "deploy_contract", code |-> <<>>]>>
    /\ heap[builder].actions =
           <<[kind |-> "FunctionCall", method_name |-> "", args |-> <<>>,
              gas |-> 0, deposit |-> 0],
             [kind |-> "DeployContract", code |-> <<>>]>>

\* C9: the action sequence only grows at its end: every step leaves the old
\* sequence a prefix of the new one, an append adds exactly one element,
\* sign_transaction and build() leave it as it is, and the builder never goes
\* back to an earlier phase.
C9_AppendOnly ==
    [][phase = "building" =>
          /\ phase' # "init"
          /\ IsPrefix(heap[builder].actions, Current'.actions)
          /\ calls' # calls =>
                 Len(Current'.actions) = Len(heap[builder].actions) + 1
          /\ last'.op \in {"sign_transaction", "build"} =>
                 Current'.actions = heap[builder].actions]_vars

C9_Witness ==
    /\ phase = "finalized"
    /\ Len(calls) = 2
    /\ calls[1].op = "add_key"
    /\ calls[2].op = "delete_key"
    /\ Len(heap[built].actions) = 2
    /\ \E k \in 1..Len(signLog) : signLog[k].at = 1

\* C10: sign_transaction leaves the builder's record as it was, no later step
\* changes a signed transaction already returned or the record it wraps, and
\* each signed transaction holds the actions appended before its own call.
C10_SignedIsIndependent ==
    [][/\ last'.op = "sign_transaction" => heap'[builder'] = heap[builder]
       /\ \A k \in 1..Len(signed) :
            /\ k <= Len(signed')
            /\ signed'[k] = signed[k]
            /\ heap'[signed[k].transaction] = heap[signed[k].transaction]
       /\ \A k \in 1..Len(signLog') :
            heap'[signed'[signLog'[k].results].transaction].actions
                = SubSeq(Current'.actions, 1, signLog'[k].at)]_vars

C10_Witness ==
    /\ Len(signLog) = 2
    /\ signLog[1].at = 0
    /\ signLog[2].at = 1
    /\ Len(calls) = 2
    /\ heap[Returned(signLog[1]).transaction].actions = <<>>
    /\ Len(heap[Returned(signLog[2]).transaction].actions) = 1
    /\ Len(Current.actions) = 2

====
